---- MODULE Spec2Model ----
(***************************************************************************)
(* The multi-step query agent of rubaiat-hossain/contextual-qa-agent:     *)
(* the POST /analyze handler and processMultiStepQuery of src/main.ts     *)
(* (static knowledge base), and of the two ChromaDB programs in           *)
(* src/unnamed/part_000: the fast-path program (lines 1-329) and the      *)
(* plain ChromaDB program (lines 330-547).                                *)
(*                                                                         *)
(* JavaScript strings are sequences of one-character strings, so that     *)
(* toLowerCase, trim, split, replace, includes and the time-phrase        *)
(* regular expression are computed character by character.               *)
(***************************************************************************)
EXTENDS Integers, Sequences, FiniteSets, TLC

(***************************************************************************)
(* JavaScript values                                                       *)
(***************************************************************************)

\* undefined / null: the value of a missing property or of an optional
\* chain that stopped early.  It is not a string of characters.
Undefined ==
    <<"<undefined>">>

\* The empty string "".
EmptyStr ==
    <<>>

\* !v for a string-or-undefined value: undefined, null and "" are falsy.
Falsy(v) ==
    v = Undefined \/ v = EmptyStr

\* a || b
Or(a, b) ==
    IF Falsy(a) THEN b ELSE a

\* a ?? b
Nullish(a, b) ==
    IF a = Undefined THEN b ELSE a

LowerLetters ==
    <<"a","b","c","d","e","f","g","h","i","j","k","l","m",
      "n","o","p","q","r","s","t","u","v","w","x","y","z">>

UpperLetters ==
    <<"A","B","C","D","E","F","G","H","I","J","K","L","M",
      "N","O","P","Q","R","S","T","U","V","W","X","Y","Z">>

Digits ==
    {"0","1","2","3","4","5","6","7","8","9"}

\* \s of a regular expression (the characters of it the inputs use).
IsSpace(c) ==
    c \in {" ", "\t", "\n"}

IsLower(c) ==
    \E i \in 1..26 : LowerLetters[i] = c

IsUpper(c) ==
    \E i \in 1..26 : UpperLetters[i] = c

\* \w of a regular expression.
IsWordChar(c) ==
    IsLower(c) \/ IsUpper(c) \/ c \in Digits \/ c = "_"

LowerChar(c) ==
    IF IsUpper(c) THEN LowerLetters[CHOOSE i \in 1..26 : UpperLetters[i] = c] ELSE c

\* String.prototype.toLowerCase
ToLowerCase(s) ==
    [i \in 1..Len(s) |-> LowerChar(s[i])]

\* String.prototype.trim
Trim(s) ==
    IF \A i \in 1..Len(s) : IsSpace(s[i])
    THEN EmptyStr
    ELSE LET first == CHOOSE i \in 1..Len(s) :
                          ~IsSpace(s[i]) /\ \A j \in 1..(i-1) : IsSpace(s[j])
             last  == CHOOSE i \in 1..Len(s) :
                          ~IsSpace(s[i]) /\ \A j \in (i+1)..Len(s) : IsSpace(s[j])
         IN  SubSeq(s, first, last)

\* s.split(/\s+/)[0]: the characters before the first run of white space
\* (the whole string when it has none, "" when it starts with one).
FirstSplitWs(s) ==
    IF \E i \in 1..Len(s) : IsSpace(s[i])
    THEN LET cut == CHOOSE i \in 1..Len(s) :
                        IsSpace(s[i]) /\ \A j \in 1..(i-1) : ~IsSpace(s[j])
         IN  SubSeq(s, 1, cut - 1)
    ELSE s

\* s.replace(/[^a-z]/g, "")
StripNonLower(s) ==
    SelectSeq(s, IsLower)

\* String.prototype.includes
Includes(s, sub) ==
    \E i \in 0..(Len(s) - Len(sub)) : SubSeq(s, i + 1, i + Len(sub)) = sub

(***************************************************************************)
(* String literals of the programs                                         *)
(***************************************************************************)

NoFinalResponse ==
    <<"N","o"," ","f","i","n","a","l"," ","r","e","s","p","o","n","s","e",".">>

NoRelevantKnowledge ==
    <<"N","o"," ","r","e","l","e","v","a","n","t"," ","k","n","o","w","l","e","d","g","e",
      " ","f","o","u","n","d",".">>

MissingText ==
    <<"M","i","s","s","i","n","g"," ","t","e","x","t">>

MissingTextParameter ==
    <<"M","i","s","s","i","n","g"," ","t","e","x","t"," ","p","a","r","a","m","e","t","e",
      "r">>

InternalServerErrorMain ==
    <<"I","n","t","e","r","n","a","l"," ","s","e","r","v","e","r"," ","e","r","r","o","r">>

InternalServerErrorChroma ==
    <<"I","n","t","e","r","n","a","l"," ","S","e","r","v","e","r"," ","E","r","r","o","r">>

CurrentTimeIs ==
    <<"C","u","r","r","e","n","t"," ","t","i","m","e"," ","i","s"," ">>

StrQuestion ==
    <<"q","u","e","s","t","i","o","n">>

StrGeneral ==
    <<"g","e","n","e","r","a","l">>

KwAi ==
    <<"a","i">>

KwArtificialIntelligence ==
    <<"a","r","t","i","f","i","c","i","a","l"," ","i","n","t","e","l","l","i","g","e","n","c","e">>

KwHelicone ==
    <<"h","e","l","i","c","o","n","e">>

KwRag ==
    <<"r","a","g">>

KwRetrieval ==
    <<"r","e","t","r","i","e","v","a","l">>

KbAi ==
    <<"A","r","t","i","f","i","c","i","a","l"," ","I","n","t","e","l","l","i","g","e","n",
      "c","e"," ","i","s"," ","t","h","e"," ","s","i","m","u","l","a","t","i","o","n"," ",
      "o","f"," ","h","u","m","a","n"," ","i","n","t","e","l","l","i","g","e","n","c","e",
      " ","p","r","o","c","e","s","s","e","s"," ","b","y"," ","m","a","c","h","i","n","e",
      "s",","," ","e","s","p","e","c","i","a","l","l","y"," ","c","o","m","p","u","t","e",
      "r"," ","s","y","s","t","e","m","s",".">>

KbHelicone ==
    <<"H","e","l","i","c","o","n","e"," ","i","s"," ","a","n"," ","o","b","s","e","r","v",
      "a","b","i","l","i","t","y"," ","p","l","a","t","f","o","r","m"," ","t","h","a","t",
      " ","h","e","l","p","s"," ","d","e","v","e","l","o","p","e","r","s"," ","m","o","n",
      "i","t","o","r"," ","a","n","d"," ","d","e","b","u","g"," ","L","L","M"," ","a","p",
      "p","l","i","c","a","t","i","o","n","s",".">>

KbRag ==
    <<"R","e","t","r","i","e","v","a","l","-","A","u","g","m","e","n","t","e","d"," ","G",
      "e","n","e","r","a","t","i","o","n"," ","(","R","A","G",")"," ","c","o","m","b","i",
      "n","e","s"," ","r","e","t","r","i","e","v","a","l"," ","o","f"," ","e","x","t","e",
      "r","n","a","l"," ","k","n","o","w","l","e","d","g","e"," ","w","i","t","h"," ","t",
      "e","x","t"," ","g","e","n","e","r","a","t","i","o","n"," ","t","o"," ","p","r","o",
      "d","u","c","e"," ","m","o","r","e"," ","a","c","c","u","r","a","t","e"," ","r","e",
      "s","u","l","t","s",".">>

DocAi ==
    <<"A","r","t","i","f","i","c","i","a","l"," ","I","n","t","e","l","l","i","g","e","n",
      "c","e"," ","(","A","I",")"," ","i","s"," ","t","h","e"," ","s","i","m","u","l","a",
      "t","i","o","n"," ","o","f"," ","h","u","m","a","n","-","l","i","k","e"," ","i","n",
      "t","e","l","l","i","g","e","n","c","e"," ","b","y"," ","m","a","c","h","i","n","e",
      "s"," ","t","o"," ","p","e","r","f","o","r","m"," ","t","a","s","k","s"," ","l","i",
      "k","e"," ","l","e","a","r","n","i","n","g",","," ","r","e","a","s","o","n","i","n",
      "g",","," ","a","n","d"," ","p","r","o","b","l","e","m","-","s","o","l","v","i","n",
      "g",".">>

DocHelicone ==
    <<"H","e","l","i","c","o","n","e"," ","i","s"," ","a"," ","d","e","v","e","l","o","p",
      "e","r"," ","p","l","a","t","f","o","r","m"," ","f","o","r"," ","m","o","n","i","t",
      "o","r","i","n","g"," ","a","n","d"," ","d","e","b","u","g","g","i","n","g"," ","A",
      "I"," ","a","g","e","n","t","s"," ","a","n","d"," ","L","L","M"," ","a","p","p","l",
      "i","c","a","t","i","o","n","s","."," ","I","t"," ","p","r","o","v","i","d","e","s",
      " ","o","b","s","e","r","v","a","b","i","l","i","t","y"," ","i","n","t","o"," ","p",
      "r","o","m","p","t","s",","," ","c","o","s","t","s",","," ","l","a","t","e","n","c",
      "y",","," ","a","n","d"," ","s","e","s","s","i","o","n"," ","f","l","o","w","s",".">>

DocRag ==
    <<"R","e","t","r","i","e","v","a","l","-","A","u","g","m","e","n","t","e","d"," ","G",
      "e","n","e","r","a","t","i","o","n"," ","(","R","A","G",")"," ","i","s"," ","a","n",
      " ","A","I"," ","f","r","a","m","e","w","o","r","k"," ","t","h","a","t"," ","r","e",
      "t","r","i","e","v","e","s"," ","e","x","t","e","r","n","a","l"," ","i","n","f","o",
      "r","m","a","t","i","o","n"," ","a","n","d"," ","i","n","j","e","c","t","s"," ","i",
      "t"," ","i","n","t","o"," ","t","h","e"," ","p","r","o","m","p","t"," ","f","o","r",
      " ","b","e","t","t","e","r",","," ","m","o","r","e"," ","f","a","c","t","u","a","l",
      " ","r","e","s","p","o","n","s","e","s",".">>

DocObservability ==
    <<"O","b","s","e","r","v","a","b","i","l","i","t","y"," ","i","n"," ","A","I"," ","r",
      "e","f","e","r","s"," ","t","o"," ","t","h","e"," ","p","r","a","c","t","i","c","e",
      " ","o","f"," ","u","n","d","e","r","s","t","a","n","d","i","n","g",","," ","m","o",
      "n","i","t","o","r","i","n","g",","," ","a","n","d"," ","d","e","b","u","g","g","i",
      "n","g"," ","m","o","d","e","l"," ","b","e","h","a","v","i","o","r"," ","b","y"," ",
      "t","r","a","c","k","i","n","g"," ","k","e","y"," ","m","e","t","r","i","c","s"," ",
      "l","i","k","e"," ","l","a","t","e","n","c","y",","," ","c","o","s","t",","," ","t",
      "o","k","e","n"," ","u","s","a","g","e",","," ","a","n","d"," ","s","e","s","s","i",
      "o","n"," ","t","r","a","c","e","s",".">>

DocMcp ==
    <<"M","o","d","e","l"," ","C","o","n","t","e","x","t"," ","P","r","o","t","o","c","o",
      "l"," ","(","M","C","P",")"," ","a","l","l","o","w","s"," ","A","I"," ","a","g","e",
      "n","t","s"," ","t","o"," ","c","o","n","n","e","c","t"," ","e","x","t","e","r","n",
      "a","l"," ","t","o","o","l","s",","," ","A","P","I","s",","," ","o","r"," ","s","e",
      "r","v","i","c","e","s"," ","d","y","n","a","m","i","c","a","l","l","y"," ","a","t",
      " ","r","u","n","t","i","m","e"," ","u","s","i","n","g"," ","a"," ","s","t","a","n",
      "d","a","r","d"," ","p","r","o","t","o","c","o","l"," ","f","o","r"," ","e","n","h",
      "a","n","c","e","d"," ","c","a","p","a","b","i","l","i","t","i","e","s",".">>

DocLlmops ==
    <<"L","L","M","O","p","s"," ","r","e","f","e","r","s"," ","t","o"," ","o","p","e","r",
      "a","t","i","o","n","a","l"," ","p","r","a","c","t","i","c","e","s"," ","a","r","o",
      "u","n","d"," ","m","a","n","a","g","i","n","g",","," ","m","o","n","i","t","o","r",
      "i","n","g",","," ","s","c","a","l","i","n","g",","," ","a","n","d"," ","d","e","b",
      "u","g","g","i","n","g"," ","l","a","r","g","e"," ","l","a","n","g","u","a","g","e",
      " ","m","o","d","e","l","s"," ","i","n"," ","p","r","o","d","u","c","t","i","o","n",
      " ","e","n","v","i","r","o","n","m","e","n","t","s",".">>

(***************************************************************************)
(* Inputs: request texts, backend replies, clock readings, thrown values   *)
(***************************************************************************)

TxtWhatIsAi ==
    <<"w","h","a","t"," ","i","s"," ","a","i","?">>

TxtWhatTime ==
    <<"W","h","a","t"," ","t","i","m","e"," "," ","i","s"," ","i","t","?">>

TxtHello ==
    <<"h","e","l","l","o">>

TxtTimezone ==
    <<"c","u","r","r","e","n","t"," ","t","i","m","e","z","o","n","e">>

TxtHeliconeRag ==
    <<"h","e","l","i","c","o","n","e"," ","r","a","g">>

TxtTimeNow ==
    <<"t","h","e"," ","T","I","M","E","\t","n","o","w">>

ReplyQuestion ==
    <<"q","u","e","s","t","i","o","n">>

ReplyGeneral ==
    <<"g","e","n","e","r","a","l">>

ReplyQuestionDot ==
    <<"Q","u","e","s","t","i","o","n",".">>

ReplyNotAQuestion ==
    <<"n","o","t"," ","a"," ","q","u","e","s","t","i","o","n">>

ReplyPadded ==
    <<" ","Q","U","E","S","T","I","O","N","\n">>

ReplyHi ==
    <<"H","i","!">>

ReplyThink ==
    <<"t","h","i","n","k">>

Instant1 ==
    <<"2","0","2","5","-","0","5","-","0","1","T","1","2",":","0","0",":","0","0",".","0",
      "0","0","Z">>

Instant2 ==
    <<"2","0","2","5","-","0","5","-","0","1","T","1","2",":","0","0",":","0","1",".","5",
      "0","0","Z">>

StrUndefined ==
    <<"u","n","d","e","f","i","n","e","d">>

MsgConnection ==
    <<"C","o","n","n","e","c","t","i","o","n"," ","e","r","r","o","r",".">>

StrRateLimited ==
    <<"r","a","t","e"," ","l","i","m","i","t","e","d","\n">>

(***************************************************************************)
(* Bounds of the model                                                     *)
(***************************************************************************)

\* Request slots of the server (connections that may carry a request).
NumReqs ==
    2

\* Distinct values randomUUID can return in one run.
NumUUIDs ==
    2

Reqs ==
    1..NumReqs

UUIDs ==
    1..NumUUIDs

\* The value of sessionId before randomUUID has run.
NoSession ==
    0

Texts ==
    {TxtWhatIsAi, TxtWhatTime, TxtHello, TxtTimezone, TxtHeliconeRag, TxtTimeNow}

\* req.body.text: a text, the empty string, or no text property at all.
Bodies ==
    Texts \cup {EmptyStr, Undefined}

\* A chat completion as the program reads it: choices?.[0]?.message?.content.
\* "noChoices" has no (or an empty) choices array, "noMessage" a choice
\* without message, "noContent" a message whose content is null.
Completion(shape, content) ==
    [shape |-> shape, content |-> content]

MissingCompletions ==
    {Completion(s, Undefined) : s \in {"noChoices", "noMessage", "noContent"}}

ClassifyReplies ==
    {Completion("text", c) : c \in {ReplyQuestion, ReplyGeneral, ReplyQuestionDot,
                                    ReplyNotAQuestion, ReplyPadded, EmptyStr}}
        \cup MissingCompletions

ReasoningReplies ==
    {Completion("text", ReplyThink), Completion("text", EmptyStr),
     Completion("noContent", Undefined)}

FinalReplies ==
    {Completion("text", ReplyHi), Completion("text", EmptyStr)} \cup MissingCompletions

\* Date.now() / new Date() readings.
Instants ==
    {Instant1, Instant2}

\* A thrown value: an Error with a message, or a value that is not an Error.
Thrown(isError, value) ==
    [isError |-> isError, value |-> value]

ThrownValues ==
    {Thrown(TRUE, MsgConnection), Thrown(FALSE, StrRateLimited), Thrown(FALSE, Undefined)}

(***************************************************************************)
(* Pure functions of the programs                                          *)
(***************************************************************************)

\* choices?.[0]?.message?.content
ContentOf(completion) ==
    IF completion.shape = "text" THEN completion.content ELSE Undefined

WordWhat ==
    <<"w","h","a","t">>

WordTime ==
    <<"t","i","m","e">>

WordIs ==
    <<"i","s">>

WordIt ==
    <<"i","t">>

WordCurrent ==
    <<"c","u","r","r","e","n","t">>

WordNow ==
    <<"n","o","w">>

\* The alternatives of the time-phrase pattern; consecutive words are
\* separated by \s+.
TimePhrases ==
    { <<WordWhat, WordTime, WordIs, WordIt>>, <<WordCurrent, WordTime>>, <<WordTime, WordNow>> }

\* \b between s[p] and s[p+1] (p = 0 is the start, p = Len(s) the end).
WordBoundary(s, p) ==
    LET before == p >= 1 /\ IsWordChar(s[p])
        after  == p < Len(s) /\ IsWordChar(s[p + 1])
    IN  before # after

\* Index of the last character of a match of the words starting at s[i],
\* case-insensitively, or 0 when they do not match there.
RECURSIVE MatchWords(_, _, _)
MatchWords(s, words, i) ==
    LET w == Head(words)
        e == i + Len(w) - 1
    IN  IF e > Len(s) \/ ToLowerCase(SubSeq(s, i, e)) # w
        THEN 0
        ELSE IF Len(words) = 1
        THEN e
        ELSE IF e + 1 > Len(s) \/ ~IsSpace(s[e + 1])
        THEN 0
        ELSE LET n == CHOOSE j \in (e + 2)..(Len(s) + 1) :
                          /\ \A k \in (e + 1)..(j - 1) : IsSpace(s[k])
                          /\ (j = Len(s) + 1 \/ ~IsSpace(s[j]))
             IN  MatchWords(s, Tail(words), n)

\* /\b(what\s+time\s+is\s+it|current\s+time|time\s+now)\b/i.test(text)
IsTimeQuestion(s) ==
    \E words \in TimePhrases : \E i \in 1..Len(s) :
        /\ WordBoundary(s, i - 1)
        /\ MatchWords(s, words, i) # 0
        /\ WordBoundary(s, MatchWords(s, words, i))

\* src/main.ts: rawClassification and classification; the lowercased and
\* the trimmed string are each computed once.
ClassificationMain(completion) ==
    LET rawClassification == Or(ContentOf(completion), EmptyStr)
    IN  CHOOSE classification \in
               {StripNonLower(FirstSplitWs(trimmed)) :
                    trimmed \in {Trim(lower) : lower \in {ToLowerCase(rawClassification)}}} :
               TRUE

\* ChromaDB programs: content?.trim().toLowerCase() ?? "general".
ClassificationChroma(completion) ==
    LET content == ContentOf(completion)
    IN  Nullish(IF content = Undefined THEN Undefined ELSE ToLowerCase(Trim(content)),
                StrGeneral)

\* A lookup that tests the Helicone keyword before the AI keywords.
KnowledgeBaseLookupHeliconeFirst(kb, t) ==
    LET inputText == ToLowerCase(t)
    IN  IF Includes(inputText, KwHelicone)
        THEN kb["helicone"]
        ELSE IF Includes(inputText, KwAi) \/ Includes(inputText, KwArtificialIntelligence)
        THEN kb["ai"]
        ELSE IF Includes(inputText, KwRag) \/ Includes(inputText, KwRetrieval)
        THEN kb["rag"]
        ELSE NoRelevantKnowledge

\* src/main.ts: the keyword lookup in the static knowledge base.
KnowledgeBaseLookup(kb, t) ==
    LET inputText == ToLowerCase(t)
    IN  IF Includes(inputText, KwAi) \/ Includes(inputText, KwArtificialIntelligence)
        THEN kb["ai"]
        ELSE IF Includes(inputText, KwHelicone)
        THEN kb["helicone"]
        ELSE IF Includes(inputText, KwRag) \/ Includes(inputText, KwRetrieval)
        THEN kb["rag"]
        ELSE NoRelevantKnowledge

\* src/main.ts: content || "No final response."
FinalResponseMain(completion) ==
    Or(ContentOf(completion), NoFinalResponse)

\* ChromaDB programs: content ?? "No final response."
FinalResponseChroma(completion) ==
    Nullish(ContentOf(completion), NoFinalResponse)

\* content || "" (src/main.ts) and content ?? "" (ChromaDB programs)
ReasoningOutputOf(completion) ==
    Nullish(ContentOf(completion), EmptyStr)

(***************************************************************************)
(* The step list of the fast-path program                                  *)
(***************************************************************************)

StepTimeDetection ==
    <<"t","i","m","e","_","d","e","t","e","c","t","i","o","n">>

StepTimeRetrieval ==
    <<"t","i","m","e","_","r","e","t","r","i","e","v","a","l">>

StepQueryClassification ==
    <<"q","u","e","r","y","_","c","l","a","s","s","i","f","i","c","a","t","i","o","n">>

StepKnowledgeRetrieval ==
    <<"k","n","o","w","l","e","d","g","e","_","r","e","t","r","i","e","v","a","l">>

StepTimeFallback ==
    <<"t","i","m","e","_","f","a","l","l","b","a","c","k">>

StepReasoning ==
    <<"r","e","a","s","o","n","i","n","g">>

StepResponseGeneration ==
    <<"r","e","s","p","o","n","s","e","_","g","e","n","e","r","a","t","i","o","n">>

\* The text of an entry of stepsTaken.
StepText(step) ==
    CASE step = "time_detection"       -> StepTimeDetection
      [] step = "time_retrieval"       -> StepTimeRetrieval
      [] step = "query_classification" -> StepQueryClassification
      [] step = "knowledge_retrieval"  -> StepKnowledgeRetrieval
      [] step = "time_fallback"        -> StepTimeFallback
      [] step = "reasoning"            -> StepReasoning
      [] step = "response_generation"  -> StepResponseGeneration

RECURSIVE Join(_, _)
\* steps.join(separator)
Join(steps, separator) ==
    IF Len(steps) = 0 THEN EmptyStr
    ELSE IF Len(steps) = 1 THEN StepText(steps[1])
    ELSE StepText(steps[1]) \o separator \o Join(Tail(steps), separator)

\* "Helicone-Property-ExecutionPath": stepsTaken.join(",")
ExecutionPath(stepsTaken) ==
    Join(stepsTaken, <<",">>)

(***************************************************************************)
(* The vector index (ChromaDB programs)                                    *)
(***************************************************************************)

\* ids of the documents seedKnowledgeBase adds, in the order of the add.
SeedIds ==
    <<"ai", "helicone", "rag", "observability", "mcp", "llmops">>

SeedDocuments ==
    <<DocAi, DocHelicone, DocRag, DocObservability, DocMcp, DocLlmops>>

NumSeeds ==
    6

\* nResults of collection.query in retrieveFromChromaDB (fast-path program).
NResultsFast ==
    3

\* nResults of collection.query in the plain ChromaDB program.
NResultsChroma ==
    1

Min(a, b) ==
    IF a < b THEN a ELSE b

\* The reply of collection.query as the programs read it: results.documents
\* is missing ("noDocuments"), has no row ("noRows"), or has a first row of
\* matches, best first; a match is a document or null.
QueryResult(shape, row) ==
    [shape |-> shape, row |-> row, distances |-> <<>>]

\* The number 1 in the unit distances and relevance scores are counted in
\* (tenths).
One ==
    10

\* results.distances?.[0] || [] of a reply: the distances of the matches
\* of the first row, best first, <<>> when the reply has none.
WithDistances(results, distances) ==
    [results EXCEPT !.distances = distances]

\* Distances the index may report for n matches: none, or ascending
\* distances from an exact match (0) to beyond 1.
DistanceRows(n) ==
    {<<>>} \cup {SubSeq(d, 1, n) : d \in {<<0, 3, 12>>, <<3, 5, 12>>}}

\* The rankings the index may answer with: any stored document first, the
\* following ones in the order of the ids, at most min(nResults, count) of
\* them; a first match whose document is null; or no documents at all.
QueryResults(stored, nResults) ==
    LET held == SelectSeq([j \in 1..NumSeeds |-> j], LAMBDA j : SeedIds[j] \in stored)
    IN  {QueryResult("noDocuments", <<>>), QueryResult("noRows", <<>>),
         QueryResult("rows", <<Undefined>>)}
        \cup {QueryResult("rows", [i \in 1..n |->
                                     SeedDocuments[held[((k + i - 2) % Len(held)) + 1]]]) :
                k \in 1..Len(held), n \in 0..Min(nResults, Len(held))}
        \cup {QueryResult("rows", <<>>)}

\* The replies of collection.query, with the distances of their matches.
QueryReplies(stored, nResults) ==
    UNION {{WithDistances(res, d) : d \in DistanceRows(Len(res.row))} :
              res \in QueryResults(stored, nResults)}

\* distances[i] ? (1 - distances[i]) : 0
RelevanceScore(distances, i) ==
    IF i <= Len(distances) /\ distances[i] # 0 THEN One - distances[i] ELSE 0

\* toolOutput.metadata.top_matches of retrieveFromChromaDB (without the
\* ids, which nothing reads).
TopMatches(results) ==
    LET matches   == IF results.shape = "rows" THEN results.row ELSE <<>>
        distances == results.distances
    IN  [i \in 1..Len(matches) |->
            [text |-> matches[i], relevance_score |-> RelevanceScore(distances, i)]]

\* results.documents?.[0] || []
Matches(results) ==
    IF results.shape = "rows" THEN results.row ELSE <<>>

\* A retriever that takes the last match.
TopDocumentLast(results) ==
    LET matches == Matches(results)
    IN  Nullish(IF Len(matches) = 0 THEN Undefined ELSE matches[Len(matches)],
                NoRelevantKnowledge)

\* matches[0] ?? "No relevant knowledge found."
\* (results.documents?.[0]?.[0] ?? ... in the plain ChromaDB program)
TopDocument(results) ==
    LET matches == Matches(results)
    IN  Nullish(IF Len(matches) = 0 THEN Undefined ELSE matches[1], NoRelevantKnowledge)

(***************************************************************************)
(* State                                                                   *)
(***************************************************************************)

VARIABLES
    variant,      \* which program runs: "main", "fast" or "chroma"
    server,       \* "seeding" until app.listen has been called, then "listening"
    collection,   \* ids of the documents stored in the "knowledge" collection
    usedIds,      \* values randomUUID has returned
    req,          \* per request slot: the handler's and the pipeline's locals
    seedPc,       \* position of seedKnowledgeBase: the await it is at
    starts,       \* number of times the process has been started
    seedLog,      \* per completed seedKnowledgeBase: the collection before and after
    knowledgeBase \* the module-level knowledgeBase map of src/main.ts

vars ==
    <<variant, server, collection, usedIds, req, seedPc, starts, seedLog, knowledgeBase>>

Variants ==
    {"main", "fast", "chroma"}

\* Positions of a request at which a call is in flight (an await).
Awaiting ==
    {"await_classify", "await_query", "await_log", "await_reasoning", "await_final"}

\* A call to a collaborator: the Helicone-Session-Path of a Groq call, or
\* "collection.query" for the vector index, with the Helicone-Session-Id sent.
Call(path, sid) ==
    [path |-> path, sessionId |-> sid]

\* A reply of the HTTP handler: the status and the body's properties,
\* Undefined for a property the body does not have.
Reply(status, response, error, message) ==
    [status |-> status, response |-> response, error |-> error, message |-> message]

IdleReq ==
    [pc |-> "idle", text |-> Undefined, sessionId |-> NoSession,
     isTimeQuestion |-> FALSE, classification |-> Undefined, context |-> EmptyStr,
     document |-> Undefined, time |-> Undefined, reasoningOutput |-> Undefined,
     stepsTaken |-> <<>>, calls |-> <<>>, tools |-> <<>>, sent |-> <<>>,
     classify |-> Completion("pending", Undefined), results |-> QueryResult("pending", <<>>),
     finalReply |-> Completion("pending", Undefined), caught |-> <<>>,
     topMatches |-> <<>>, executionPath |-> EmptyStr,
     hasContext |-> "unset", hasKnowledge |-> "unset"]

\* A slot no request arrives on.
ClosedReq ==
    [IdleReq EXCEPT !.pc = "closed"]

\* The collection before the process starts: empty, or seeded by an
\* earlier run.
InitialCollections ==
    {{}, {SeedIds[i] : i \in 1..NumSeeds}}

\* The state of a process that has just been loaded: src/main.ts calls
\* app.listen at once, the ChromaDB programs call seedKnowledgeBase, which
\* runs up to its first await.
ServerAtLoad(v) ==
    IF v = "main" THEN "listening" ELSE "seeding"

SeedPcAtLoad(v) ==
    IF v = "main" THEN "none" ELSE "getOrCreate"

\* const knowledgeBase of src/main.ts; the ChromaDB programs declare none.
KnowledgeBaseAtLoad(v) ==
    IF v = "main"
    THEN [k \in {"ai", "helicone", "rag"} |->
             CASE k = "ai" -> KbAi [] k = "helicone" -> KbHelicone [] k = "rag" -> KbRag]
    ELSE [k \in {} |-> EmptyStr]

InitCommon ==
    /\ variant \in Variants
    /\ knowledgeBase = KnowledgeBaseAtLoad(variant)
    /\ server = ServerAtLoad(variant)
    /\ seedPc = SeedPcAtLoad(variant)
    /\ usedIds = {}
    /\ starts = 1
    /\ seedLog = <<>>

\* One request slot carries traffic.
Init ==
    /\ InitCommon
    /\ collection \in IF variant = "main" THEN {{}} ELSE InitialCollections
    /\ req = [r \in Reqs |-> IF r = 1 THEN IdleReq ELSE ClosedReq]

(***************************************************************************)
(* Process start (ChromaDB programs)                                       *)
(***************************************************************************)

SeedSet ==
    {SeedIds[i] : i \in 1..NumSeeds}

\* A completed run of seedKnowledgeBase.
SeedRun(before, after) ==
    [before |-> before, after |-> after]

\* chroma.getOrCreateCollection resolves and collection is assigned.
SeedGetOrCreate ==
    /\ seedPc = "getOrCreate"
    /\ seedPc' = "count"
    /\ UNCHANGED <<variant, knowledgeBase, server, collection, usedIds, req, starts, seedLog>>

\* A seedKnowledgeBase that issues the add whatever the count.
SeedCountNoCheck ==
    /\ seedPc = "count"
    /\ seedPc' = "add"
    /\ UNCHANGED <<variant, knowledgeBase, server, collection, usedIds, req, starts, seedLog>>

\* collection.count() resolves: with count === 0 the add is issued,
\* otherwise seedKnowledgeBase returns.
SeedCount ==
    /\ seedPc = "count"
    /\ IF Cardinality(collection) = 0
       THEN seedPc' = "add" /\ UNCHANGED seedLog
       ELSE seedPc' = "done" /\ seedLog' = Append(seedLog, SeedRun(collection, collection))
    /\ UNCHANGED <<variant, knowledgeBase, server, collection, usedIds, req, starts>>

\* collection.add resolves: the six documents are stored and
\* seedKnowledgeBase returns.
SeedAdd ==
    /\ seedPc = "add"
    /\ collection' = collection \cup SeedSet
    /\ seedPc' = "done"
    /\ seedLog' = Append(seedLog, SeedRun(collection, collection'))
    /\ UNCHANGED <<variant, knowledgeBase, server, usedIds, req, starts>>

\* A process that listens without waiting for seedKnowledgeBase.
ListenAtLoad ==
    /\ server = "seeding"
    /\ server' = "listening"
    /\ UNCHANGED <<variant, knowledgeBase, collection, usedIds, req, seedPc, starts, seedLog>>

\* The .then callback of seedKnowledgeBase() runs: app.listen.
Listen ==
    /\ seedPc = "done"
    /\ server = "seeding"
    /\ server' = "listening"
    /\ UNCHANGED <<variant, knowledgeBase, collection, usedIds, req, seedPc, starts, seedLog>>

\* getOrCreateCollection, count or add rejects: seedKnowledgeBase rejects,
\* the .then callback never runs and app.listen is never called.
SeedFails ==
    /\ seedPc \in {"getOrCreate", "count", "add"}
    /\ seedPc' = "failed"
    /\ UNCHANGED <<variant, knowledgeBase, server, collection, usedIds, req, starts, seedLog>>

(***************************************************************************)
(* POST /analyze                                                           *)
(***************************************************************************)

\* The body of the 400 reply.
MissingTextReply(v) ==
    Reply(400, Undefined, IF v = "chroma" \/ v = "fast" THEN MissingText
                          ELSE MissingTextParameter, Undefined)

\* A handler that also fills error in the success body.
SuccessReplyMixed(v, finalResponse) ==
    Reply(200, finalResponse, InternalServerErrorMain, Undefined)

\* res.json({ response: finalResponse }); the fast-path program adds a
\* metadata property (timings), which nothing reads.
SuccessReply(v, finalResponse) ==
    Reply(200, finalResponse, Undefined, Undefined)

\* String(value) of a thrown value that is not an Error: a string is
\* itself, undefined is "undefined".
StringOf(value) ==
    IF value = Undefined THEN StrUndefined ELSE value

\* A catch block that drops the thrown value.
ErrorReplyOpaque(v, err) ==
    Reply(500, Undefined, InternalServerErrorMain, Undefined)

\* The body of the 500 reply the catch block sends for a thrown value.
ErrorReply(v, err) ==
    IF v = "main"
    THEN Reply(500, Undefined, InternalServerErrorMain,
               IF err.isError THEN err.value ELSE StringOf(err.value))
    ELSE Reply(500, Undefined,
               IF err.isError THEN err.value ELSE InternalServerErrorChroma, Undefined)

\* src/main.ts, Helicone-Property-HasContext and -HasKnowledge:
\* result !== "No relevant knowledge found." ? "true" : "false"
ContextTag(result) ==
    IF result # NoRelevantKnowledge THEN "true" ELSE "false"

\* A test for the exact word.
IsQuestionExact(classification) ==
    classification = StrQuestion

\* classification.includes("question")
IsQuestion(classification) ==
    Includes(classification, StrQuestion)

Classification(v, completion) ==
    IF v = "main" THEN ClassificationMain(completion) ELSE ClassificationChroma(completion)

FinalResponse(v, completion) ==
    IF v = "main" THEN FinalResponseMain(completion) ELSE FinalResponseChroma(completion)

\* A call that is issued a second time.
IssueTwice(rec, path) ==
    LET call == Call(path, IF path = "collection.query" THEN NoSession ELSE rec.sessionId)
    IN  [rec EXCEPT !.calls = Append(Append(@, call), call)]

\* The request record after one more call has been issued.
Issue(rec, path) ==
    [rec EXCEPT !.calls = Append(@, Call(path, IF path = "collection.query"
                                               THEN NoSession ELSE rec.sessionId))]

\* The time branch up to its await: getCurrentTime reads the clock; the
\* fast-path program's getCurrentTime awaits its own log call before it
\* returns, the other programs build the context and await logTool.
TimeBranch(v, rec, now) ==
    LET r1 == [rec EXCEPT !.tools = Append(@, "getCurrentTime"), !.time = now,
                          !.pc = "await_log"]
    IN  IF v = "fast"
        THEN Issue(r1, "/manual-tool-log")
        ELSE Issue([r1 EXCEPT !.context = CurrentTimeIs \o now], "/tool-execution")

\* A pipeline that classifies every text, time phrase or not.
StartPipelineNoFastPath(v, rec, now) ==
    Issue([rec EXCEPT !.pc = "await_classify",
                      !.stepsTaken = IF v = "fast"
                                     THEN Append(@, "query_classification") ELSE @],
          "/classify")

\* processMultiStepQuery from its first line to its first await.
StartPipeline(v, rec, now) ==
    IF v = "fast" /\ IsTimeQuestion(rec.text)
    THEN TimeBranch(v, [rec EXCEPT !.isTimeQuestion = TRUE,
                                   !.stepsTaken = Append(@, "time_detection")], now)
    ELSE Issue([rec EXCEPT !.pc = "await_classify",
                           !.stepsTaken = IF v = "fast"
                                          THEN Append(@, "query_classification") ELSE @],
               "/classify")

\* A program that draws its session id once, when the module is loaded.
AnalyzeHandlerSharedSession(r, body, uuid, now) ==
    /\ server = "listening"
    /\ req[r].pc = "idle"
    /\ IF Falsy(body)
       THEN /\ req' = [req EXCEPT ![r] = [@ EXCEPT !.pc = "rejected", !.text = body,
                                                   !.sent = Append(@, MissingTextReply(variant))]]
            /\ UNCHANGED usedIds
       ELSE /\ usedIds' = usedIds \cup {1}
            /\ req' = [req EXCEPT ![r] =
                         StartPipeline(variant, [@ EXCEPT !.text = body, !.sessionId = 1], now)]
    /\ UNCHANGED <<variant, knowledgeBase, server, collection, seedPc, starts, seedLog>>

\* A handler without the text check.
AnalyzeHandlerNoCheck(r, body, uuid, now) ==
    /\ server = "listening"
    /\ req[r].pc = "idle"
    /\ uuid \notin usedIds
    /\ usedIds' = usedIds \cup {uuid}
    /\ req' = [req EXCEPT ![r] =
                 StartPipeline(variant, [@ EXCEPT !.text = body, !.sessionId = uuid], now)]
    /\ UNCHANGED <<variant, knowledgeBase, server, collection, seedPc, starts, seedLog>>

\* The handler receives a request: it replies 400 to a missing text, and
\* otherwise runs processMultiStepQuery up to its first await.  randomUUID
\* returns a value it has not returned before.
AnalyzeHandler(r, body, uuid, now) ==
    /\ server = "listening"
    /\ req[r].pc = "idle"
    /\ IF Falsy(body)
       THEN /\ req' = [req EXCEPT ![r] = [@ EXCEPT !.pc = "rejected", !.text = body,
                                                   !.sent = Append(@, MissingTextReply(variant))]]
            /\ UNCHANGED usedIds
       ELSE /\ uuid \notin usedIds
            /\ usedIds' = usedIds \cup {uuid}
            /\ req' = [req EXCEPT ![r] =
                         StartPipeline(variant, [@ EXCEPT !.text = body, !.sessionId = uuid], now)]
    /\ UNCHANGED <<variant, knowledgeBase, server, collection, seedPc, starts, seedLog>>

\* A branch that looks up knowledge whatever the classification.
AfterClassifyAlwaysRetrieve(v, rec, now) ==
    IF v = "main"
    THEN Issue([rec EXCEPT !.tools = Append(@, "knowledgeBaseLookup"),
                           !.context = KnowledgeBaseLookup(knowledgeBase, rec.text),
                           !.pc = "await_log"], "/knowledge-retrieval")
    ELSE Issue([rec EXCEPT !.tools = Append(@, "ChromaDBRetrieval"),
                           !.stepsTaken = IF v = "fast"
                                          THEN Append(@, "knowledge_retrieval") ELSE @,
                           !.pc = "await_query"], "collection.query")

\* The branch taken once the classifier has answered, up to its await.
AfterClassify(v, rec, now) ==
    IF IsQuestion(rec.classification)
    THEN IF v = "main"
         THEN Issue([rec EXCEPT !.tools = Append(@, "knowledgeBaseLookup"),
                                !.context = KnowledgeBaseLookup(knowledgeBase, rec.text),
                                !.pc = "await_log"], "/knowledge-retrieval")
         ELSE Issue([rec EXCEPT !.tools = Append(@, "ChromaDBRetrieval"),
                                !.stepsTaken = IF v = "fast"
                                               THEN Append(@, "knowledge_retrieval") ELSE @,
                                !.pc = "await_query"], "collection.query")
    ELSE TimeBranch(v, [rec EXCEPT !.stepsTaken = IF v = "fast"
                                                  THEN Append(@, "time_fallback") ELSE @], now)

\* The /classify call returns.
ClassifyReturn(r, completion, now) ==
    /\ req[r].pc = "await_classify"
    /\ \E classification \in {Classification(variant, completion)} :
           req' = [req EXCEPT ![r] =
                     AfterClassify(variant,
                                   [@ EXCEPT !.classify = completion,
                                             !.classification = classification],
                                   now)]
    /\ UNCHANGED <<variant, knowledgeBase, server, collection, usedIds, seedPc, starts, seedLog>>

\* collection.query returns: the top document is chosen and the retrieval
\* is logged through a Groq call.
AfterQuery(v, rec, results) ==
    IF v = "fast"
    THEN Issue([rec EXCEPT !.results = results, !.document = TopDocument(results),
                           !.topMatches = TopMatches(results),
                           !.pc = "await_log"], "/knowledge-retrieval")
    ELSE Issue([rec EXCEPT !.results = results, !.context = TopDocument(results),
                           !.pc = "await_log"], "/knowledge-retrieval")

\* A retrieval that removes the first seed document from the collection.
QueryReturnEvicts(r, results) ==
    /\ req[r].pc = "await_query"
    /\ req' = [req EXCEPT ![r] = AfterQuery(variant, @, results)]
    /\ collection' = collection \ {SeedIds[1]}
    /\ UNCHANGED <<variant, knowledgeBase, server, usedIds, seedPc, starts, seedLog>>

\* collection.query returns: the collection is read, never written.
QueryReturn(r, results) ==
    /\ req[r].pc = "await_query"
    /\ req' = [req EXCEPT ![r] = AfterQuery(variant, @, results)]
    /\ UNCHANGED <<variant, knowledgeBase, server, collection, usedIds, seedPc, starts, seedLog>>

\* A pipeline that goes from the tool log straight to the synthesis.
AfterLogSkipReasoning(v, rec) ==
    Issue([rec EXCEPT !.pc = "await_final"], "/final-response")

\* The tool-log call returns: the fast-path program's tool functions
\* return their value to processMultiStepQuery, which sets the context;
\* every program then issues the /reasoning call.
AfterLog(v, rec) ==
    IF v = "fast"
    THEN LET ctx == IF rec.tools[Len(rec.tools)] = "ChromaDBRetrieval"
                    THEN rec.document ELSE CurrentTimeIs \o rec.time
             s1  == IF rec.isTimeQuestion
                    THEN Append(rec.stepsTaken, "time_retrieval") ELSE rec.stepsTaken
         IN  Issue([rec EXCEPT !.context = ctx, !.stepsTaken = Append(s1, "reasoning"),
                               !.pc = "await_reasoning"], "/reasoning")
    ELSE Issue([rec EXCEPT !.hasContext = IF v = "main" THEN ContextTag(rec.context) ELSE @,
                           !.pc = "await_reasoning"], "/reasoning")

LogReturn(r) ==
    /\ req[r].pc = "await_log"
    /\ req' = [req EXCEPT ![r] = AfterLog(variant, @)]
    /\ UNCHANGED <<variant, knowledgeBase, server, collection, usedIds, seedPc, starts, seedLog>>

\* A pipeline that starts its step list anew at the last stage.
AfterReasoningReset(v, rec, completion) ==
    LET steps == IF v = "fast" THEN <<"response_generation">> ELSE rec.stepsTaken
    IN  Issue([rec EXCEPT !.reasoningOutput = ReasoningOutputOf(completion),
                          !.stepsTaken = steps,
                          !.executionPath = IF v = "fast" THEN ExecutionPath(steps) ELSE @,
                          !.pc = "await_final"], "/final-response")

\* The /reasoning call returns; the /final-response call is issued, in the
\* fast-path program with the step list in its ExecutionPath header, in
\* src/main.ts with the HasKnowledge header.
AfterReasoning(v, rec, completion) ==
    LET steps == IF v = "fast" THEN Append(rec.stepsTaken, "response_generation")
                 ELSE rec.stepsTaken
    IN  Issue([rec EXCEPT !.reasoningOutput = ReasoningOutputOf(completion),
                          !.stepsTaken = steps,
                          !.executionPath = IF v = "fast" THEN ExecutionPath(steps) ELSE @,
                          !.hasKnowledge = IF v = "main" THEN ContextTag(rec.context) ELSE @,
                          !.pc = "await_final"], "/final-response")

ReasoningReturn(r, completion) ==
    /\ req[r].pc = "await_reasoning"
    /\ req' = [req EXCEPT ![r] = AfterReasoning(variant, @, completion)]
    /\ UNCHANGED <<variant, knowledgeBase, server, collection, usedIds, seedPc, starts, seedLog>>

\* The /final-response call returns: processMultiStepQuery returns the
\* final response and the handler sends it.
AfterFinal(v, rec, completion) ==
    [rec EXCEPT !.pc = "done", !.finalReply = completion,
                !.sent = Append(@, SuccessReply(v, FinalResponse(v, completion)))]

FinalReturn(r, completion) ==
    /\ req[r].pc = "await_final"
    /\ req' = [req EXCEPT ![r] = AfterFinal(variant, @, completion)]
    /\ UNCHANGED <<variant, knowledgeBase, server, collection, usedIds, seedPc, starts, seedLog>>

\* A pipeline that issues the call again when it throws.
AfterThrowRetry(v, rec, err) ==
    [rec EXCEPT !.calls = Append(@, @[Len(@)])]

\* A catch block that answers with what the pipeline has so far.
AfterThrowPartial(v, rec, err) ==
    [rec EXCEPT !.pc = "failed", !.caught = <<err>>,
                !.sent = Append(@, Reply(200, rec.context, Undefined, Undefined))]

\* The call in flight rejects: nothing in processMultiStepQuery handles
\* it (the fast-path tools catch, print and rethrow), so it reaches the
\* handler's catch block, which sends the 500 reply.
AfterThrow(v, rec, err) ==
    [rec EXCEPT !.pc = "failed", !.caught = <<err>>, !.sent = Append(@, ErrorReply(v, err))]

CallThrows(r, err) ==
    /\ req[r].pc \in Awaiting
    /\ req' = [req EXCEPT ![r] = AfterThrow(variant, @, err)]
    /\ UNCHANGED <<variant, knowledgeBase, server, collection, usedIds, seedPc, starts, seedLog>>

NResults ==
    IF variant = "fast" THEN NResultsFast ELSE NResultsChroma

Next ==
    \/ SeedGetOrCreate
    \/ SeedCount
    \/ SeedAdd
    \/ Listen
    \/ SeedFails
    \/ \E r \in Reqs, body \in Bodies, uuid \in UUIDs, now \in Instants :
           AnalyzeHandler(r, body, uuid, now)
    \/ \E r \in Reqs, completion \in ClassifyReplies, now \in Instants :
           ClassifyReturn(r, completion, now)
    \/ \E r \in Reqs, results \in QueryReplies(collection, NResults) : QueryReturn(r, results)
    \/ \E r \in Reqs : LogReturn(r)
    \/ \E r \in Reqs, completion \in ReasoningReplies : ReasoningReturn(r, completion)
    \/ \E r \in Reqs, completion \in FinalReplies : FinalReturn(r, completion)
    \/ \E r \in Reqs, err \in ThrownValues : CallThrows(r, err)

Spec ==
    Init /\ [][Next]_vars

TypeOK ==
    /\ variant \in Variants
    /\ server \in {"seeding", "listening"}
    /\ seedPc \in {"none", "getOrCreate", "count", "add", "done", "failed"}
    /\ usedIds \subseteq UUIDs
    /\ \A r \in Reqs :
          /\ req[r].pc \in Awaiting \cup {"idle", "closed", "rejected", "done", "failed"}
          /\ Len(req[r].sent) <= 1

(***************************************************************************)
(* Properties                                                              *)
(***************************************************************************)

\* Requests that got past the handler's text check.
Accepted(r) ==
    req[r].pc \in Awaiting \cup {"done", "failed"}

\* The path of the call a request issued last.
LastPath(r) ==
    req[r].calls[Len(req[r].calls)].path

Paths(r) ==
    {req[r].calls[i].path : i \in 1..Len(req[r].calls)}

\* Number of calls a request issued with the given path.
CountPath(r, path) ==
    Cardinality({i \in 1..Len(req[r].calls) : req[r].calls[i].path = path})

\* C1: in every program, when the pipeline completes the final response is
\* a non-empty string: the text of the synthesis reply when that is a
\* non-empty string, and "No final response." when it is empty or missing.
C1_FinalResponseNeverEmpty ==
    \A r \in Reqs :
        req[r].pc = "done" =>
            LET content == ContentOf(req[r].finalReply)
            IN  /\ req[r].sent[1].response # EmptyStr
                /\ req[r].sent[1].response # Undefined
                /\ req[r].sent[1].response =
                       IF content = Undefined \/ content = EmptyStr
                       THEN NoFinalResponse ELSE content

\* C2: a request with a non-empty text gets at most one reply, and exactly
\* one once the handler has finished; a reply carries either response and
\* no error, or error and no response; and a reply carrying response is
\* sent only when every stage of the pipeline has returned.
C2_ExactlyOneReply ==
    \A r \in Reqs :
        Accepted(r) =>
            /\ Len(req[r].sent) = IF req[r].pc \in {"done", "failed"} THEN 1 ELSE 0
            /\ \A i \in 1..Len(req[r].sent) :
                  LET reply == req[r].sent[i]
                  IN  /\ (reply.response # Undefined) # (reply.error # Undefined)
                      /\ reply.response # Undefined =>
                            /\ req[r].pc = "done"
                            /\ LastPath(r) = "/final-response"
                            /\ {"/reasoning", "/final-response"} \subseteq Paths(r)
                            /\ req[r].finalReply.shape # "pending"
                            /\ req[r].caught = <<>>

C2_Witness ==
    \E r \in Reqs :
        /\ req[r].pc = "done"
        /\ req[r].text = TxtWhatIsAi
        /\ req[r].sent = <<Reply(200, ReplyHi, Undefined, Undefined)>>

\* C3: in src/main.ts a failure of the logTool call alone never fails the
\* request: no request ends in failure with the tool-log call as the call
\* that threw.
C3_LogFailureSwallowed ==
    \A r \in Reqs :
        (variant = "main" /\ req[r].pc = "failed") =>
            LastPath(r) \notin {"/knowledge-retrieval", "/tool-execution"}

\* C4: when the call of a stage throws, the request stops there: the
\* handler sends a 500 reply without response, no further call is issued,
\* and nothing of the request changes afterwards.
C4_FailureAborts ==
    [][\A r \in Reqs :
          /\ (req[r].pc \in Awaiting /\ req'[r].pc = "failed") =>
                /\ req'[r].calls = req[r].calls
                /\ Len(req'[r].sent) = 1
                /\ req'[r].sent[1].status = 500
                /\ req'[r].sent[1].response = Undefined
          /\ (req[r].pc \in Awaiting /\ req'[r].caught # <<>>) => req'[r].pc = "failed"
          /\ req[r].pc = "failed" => req'[r] = req[r]]_vars

C4_Witness ==
    \E r \in Reqs :
        /\ variant = "main"
        /\ req[r].pc = "failed"
        /\ LastPath(r) = "/reasoning"
        /\ req[r].sent[1].status = 500
        /\ req[r].context = KbAi

\* The context a request hands to reasoning and synthesis is set.
ContextResolved(r) ==
    req[r].pc \in {"await_reasoning", "await_final", "done"}

\* C5: in the fast-path program a text that matches the time-phrase
\* pattern never causes a /classify call or a vector-index query, no
\* classifier output is ever read for it, the only tool run is the time
\* tool, and the context is "Current time is <timestamp>".
C5_FastPathSkipsClassifier ==
    \A r \in Reqs :
        (variant = "fast" /\ Accepted(r) /\ IsTimeQuestion(req[r].text)) =>
            /\ "/classify" \notin Paths(r)
            /\ "collection.query" \notin Paths(r)
            /\ req[r].classify.shape = "pending"
            /\ req[r].classification = Undefined
            /\ req[r].tools = <<"getCurrentTime">>
            /\ req[r].calls[1].path = "/manual-tool-log"
            /\ ContextResolved(r) =>
                  \E now \in Instants : req[r].context = CurrentTimeIs \o now

C5_Witness ==
    \E r \in Reqs :
        /\ variant = "fast"
        /\ req[r].text = TxtTimeNow
        /\ req[r].pc = "done"
        /\ req[r].context = CurrentTimeIs \o Instant2

\* The classifier's output was mapped to Question.
ClassifiedQuestion(r) ==
    /\ req[r].classification # Undefined
    /\ Includes(req[r].classification, StrQuestion)

Retrievers ==
    {"knowledgeBaseLookup", "ChromaDBRetrieval"}

\* C6: a request classified Question runs the knowledge retriever exactly
\* once (one vector-index query in the ChromaDB programs) and never the
\* time tool, and the context handed to reasoning and synthesis is the
\* first match of the retriever or, when there is none, the literal
\* "No relevant knowledge found.".
C6_QuestionRetrievesOnce ==
    \A r \in Reqs :
        (Accepted(r) /\ ClassifiedQuestion(r)) =>
            /\ Len(req[r].tools) = 1
            /\ req[r].tools[1] \in Retrievers
            /\ CountPath(r, "collection.query") = IF variant = "main" THEN 0 ELSE 1
            /\ CountPath(r, "/tool-execution") + CountPath(r, "/manual-tool-log") = 0
            /\ ContextResolved(r) =>
                  /\ CountPath(r, "/knowledge-retrieval") = 1
                  /\ IF variant = "main"
                     THEN req[r].context \in {KbAi, KbHelicone, KbRag, NoRelevantKnowledge}
                     ELSE LET row == IF req[r].results.shape = "rows"
                                     THEN req[r].results.row ELSE <<>>
                          IN  req[r].context =
                                  IF Len(row) > 0 /\ row[1] # Undefined
                                  THEN row[1] ELSE NoRelevantKnowledge

C6_Witness ==
    \E r \in Reqs :
        /\ variant = "fast"
        /\ ClassifiedQuestion(r)
        /\ req[r].pc = "done"
        /\ Len(req[r].results.row) = 3
        /\ req[r].context = DocRag

\* The classifier's output was mapped to General.
ClassifiedGeneral(r) ==
    /\ req[r].classification # Undefined
    /\ ~Includes(req[r].classification, StrQuestion)

\* C7: a request classified General (its text not matching a time
\* phrase) runs the time tool only: no knowledge lookup and no
\* vector-index query is made for it, and its context is
\* "Current time is <timestamp>".
C7_GeneralUsesTimeTool ==
    \A r \in Reqs :
        (Accepted(r) /\ ClassifiedGeneral(r)) =>
            /\ req[r].tools = <<"getCurrentTime">>
            /\ "collection.query" \notin Paths(r)
            /\ "/knowledge-retrieval" \notin Paths(r)
            /\ req[r].results.shape = "pending"
            /\ req[r].time \in Instants
            /\ ContextResolved(r) => req[r].context = CurrentTimeIs \o req[r].time

C7_Witness ==
    \E r \in Reqs :
        /\ variant = "fast"
        /\ ~IsTimeQuestion(req[r].text)
        /\ ClassifiedGeneral(r)
        /\ req[r].pc = "done"
        /\ req[r].stepsTaken[2] = "time_fallback"
        /\ req[r].context = CurrentTimeIs \o Instant1

\* The first alphabetic token of a classifier reply: the reply lowercased
\* and trimmed, cut at the first white space, its letters kept ("" for a
\* missing reply).
FirstAlphabeticToken(content) ==
    LET raw   == IF content = Undefined THEN EmptyStr ELSE content
        lower == Trim(ToLowerCase(raw))
        token == IF \E i \in 1..Len(lower) : IsSpace(lower[i])
                 THEN SubSeq(lower, 1, (CHOOSE i \in 1..Len(lower) :
                          IsSpace(lower[i]) /\ \A j \in 1..(i - 1) : ~IsSpace(lower[j])) - 1)
                 ELSE lower
    IN  SelectSeq(token, IsLower)

\* C8: in every program, each classifier reply is mapped to exactly one of
\* Question and General, and to Question exactly when the first
\* alphabetic token of the reply contains "question".
C8_ClassifierFirstToken ==
    \A r \in Reqs :
        req[r].classify.shape # "pending" =>
            LET question == Includes(FirstAlphabeticToken(ContentOf(req[r].classify)),
                                     StrQuestion)
            IN  /\ Len(req[r].tools) = 1
                /\ question => req[r].tools[1] \in Retrievers
                /\ ~question => req[r].tools[1] = "getCurrentTime"

C10_ErrorIsMessage ==
    \A r \in Reqs :
        req[r].pc = "failed" =>
            /\ req[r].sent[1].status = 500
            /\ req[r].sent[1].error =
                   IF req[r].caught[1].value = Undefined
                   THEN StrUndefined ELSE req[r].caught[1].value

\* C10, amended: the 500 reply carries the message of a thrown Error
\* unchanged, as message next to the fixed error "Internal server error"
\* in src/main.ts and as error in the ChromaDB programs; for a thrown value
\* that is not an Error, src/main.ts sends its string form as message and
\* the ChromaDB programs send the fixed error "Internal Server Error".
C10_ErrorBodyCarriesMessage ==
    \A r \in Reqs :
        req[r].pc = "failed" =>
            LET err   == req[r].caught[1]
                reply == req[r].sent[1]
                text  == IF err.value = Undefined THEN StrUndefined ELSE err.value
            IN  /\ reply.status = 500
                /\ reply.response = Undefined
                /\ IF variant = "main"
                   THEN reply.error = InternalServerErrorMain /\ reply.message = text
                   ELSE /\ reply.message = Undefined
                        /\ reply.error = IF err.isError THEN err.value
                                         ELSE InternalServerErrorChroma

C10_Witness ==
    \E r \in Reqs :
        /\ variant = "chroma"
        /\ req[r].pc = "failed"
        /\ req[r].caught = <<Thrown(TRUE, MsgConnection)>>
        /\ req[r].sent[1].error = MsgConnection
        /\ LastPath(r) = "collection.query"

\* The paths of the calls a request has issued, in the order of issue.
PathSeq(r) ==
    [i \in 1..Len(req[r].calls) |-> req[r].calls[i].path]

IsPrefix(s, t) ==
    Len(s) <= Len(t) /\ \A i \in 1..Len(s) : s[i] = t[i]

\* The session paths of src/main.ts, with the given path for the tool log.
MainPaths(tool) ==
    <<"/classify", tool, "/reasoning", "/final-response">>

\* The number of calls src/main.ts has issued when a request is at pc.
StageOf(pc) ==
    CASE pc = "await_classify" -> 1
      [] pc = "await_log" -> 2
      [] pc = "await_reasoning" -> 3
      [] pc \in {"await_final", "done"} -> 4

\* C11: in src/main.ts the calls of a request are a prefix of /classify,
\* then one of /knowledge-retrieval and /tool-execution, then /reasoning,
\* then /final-response, each once; the call of a stage is the last one
\* issued exactly while the request waits for it, so it is issued after
\* the call before it has returned; a completed request has issued all
\* four.
C11_StagesInOrder ==
    \A r \in Reqs :
        (variant = "main" /\ Accepted(r)) =>
            /\ \E tool \in {"/knowledge-retrieval", "/tool-execution"} :
                   IsPrefix(PathSeq(r), MainPaths(tool))
            /\ Len(req[r].calls) >= 1
            /\ req[r].pc # "failed" => Len(req[r].calls) = StageOf(req[r].pc)
            /\ req[r].pc = "done" => Len(req[r].calls) = 4

C11_Witness ==
    \E r \in Reqs :
        /\ variant = "main"
        /\ req[r].pc = "done"
        /\ PathSeq(r) = MainPaths("/tool-execution")

(***************************************************************************)
(* Concurrent requests                                                     *)
(***************************************************************************)

\* The inputs of the runs with every request slot open: one text that
\* matches the time-phrase pattern and one that does not, classifier
\* replies of both classifications, one value of everything else.
PairTexts ==
    {TxtHello, TxtTimeNow}

PairClassifyReplies ==
    {Completion("text", c) : c \in {ReplyQuestion, ReplyQuestionDot, ReplyGeneral}}

PairQueryResults ==
    {QueryResult("rows", <<DocAi>>)}

PairReasoningReplies ==
    {Completion("text", ReplyThink)}

PairFinalReplies ==
    {Completion("text", ReplyHi)}

PairInstants ==
    {Instant1}

PairThrownValues ==
    {Thrown(TRUE, MsgConnection)}

\* Every request slot carries traffic.
InitPair ==
    /\ InitCommon
    /\ collection \in IF variant = "main" THEN {{}} ELSE InitialCollections
    /\ req = [r \in Reqs |-> IdleReq]

NextPair ==
    \/ SeedGetOrCreate
    \/ SeedCount
    \/ SeedAdd
    \/ Listen
    \/ SeedFails
    \/ \E r \in Reqs, body \in PairTexts, uuid \in UUIDs, now \in PairInstants :
           AnalyzeHandler(r, body, uuid, now)
    \/ \E r \in Reqs, completion \in PairClassifyReplies, now \in PairInstants :
           ClassifyReturn(r, completion, now)
    \/ \E r \in Reqs, results \in PairQueryResults : QueryReturn(r, results)
    \/ \E r \in Reqs : LogReturn(r)
    \/ \E r \in Reqs, completion \in PairReasoningReplies : ReasoningReturn(r, completion)
    \/ \E r \in Reqs, completion \in PairFinalReplies : FinalReturn(r, completion)
    \/ \E r \in Reqs, err \in PairThrownValues : CallThrows(r, err)

SpecPair ==
    InitPair /\ [][NextPair]_vars

\* Two requests carry the same text and their classifier replies, if any,
\* are not mapped to different classifications.
SameInput(r1, r2) ==
    /\ Accepted(r1)
    /\ Accepted(r2)
    /\ req[r1].text = req[r2].text

SameClassification(r1, r2) ==
    ~(ClassifiedQuestion(r1) /\ ClassifiedGeneral(r2))
    /\ ~(ClassifiedGeneral(r1) /\ ClassifiedQuestion(r2))

\* C12 as stated: two completed runs on the same text have issued the same
\* sequence of paths.
C12_SameTextSamePaths ==
    \A r1, r2 \in Reqs :
        (SameInput(r1, r2) /\ req[r1].pc = "done" /\ req[r2].pc = "done") =>
            PathSeq(r1) = PathSeq(r2)

\* C12, amended: two runs on the same text whose classifier replies are
\* mapped to the same classification issue the same paths in the same
\* order, whatever the replies say: at any moment the paths of one run are
\* a prefix of the other's, and two completed runs have the same paths.
C12_SameClassificationSamePaths ==
    \A r1, r2 \in Reqs :
        (SameInput(r1, r2) /\ SameClassification(r1, r2)) =>
            /\ IsPrefix(PathSeq(r1), PathSeq(r2)) \/ IsPrefix(PathSeq(r2), PathSeq(r1))
            /\ (req[r1].pc = "done" /\ req[r2].pc = "done") => PathSeq(r1) = PathSeq(r2)

C12_Witness ==
    \E r1, r2 \in Reqs :
        /\ r1 # r2
        /\ variant = "chroma"
        /\ req[r1].pc = "done"
        /\ req[r2].pc = "done"
        /\ req[r1].text = TxtHello
        /\ req[r2].text = TxtHello
        /\ req[r1].classify.content = ReplyQuestion
        /\ req[r2].classify.content = ReplyQuestionDot
        /\ Len(PathSeq(r1)) = 5

\* The paths of the tool-log calls, which go to the generative backend.
ToolLogPaths ==
    {"/knowledge-retrieval", "/tool-execution", "/manual-tool-log"}

\* Number of calls to the generative backend a request has issued.
GroqCount(r) ==
    Cardinality({i \in 1..Len(req[r].calls) : req[r].calls[i].path # "collection.query"})

ToolLogCount(r) ==
    Cardinality({i \in 1..Len(req[r].calls) : req[r].calls[i].path \in ToolLogPaths})

SessionCalls(r) ==
    {i \in 1..Len(req[r].calls) : req[r].calls[i].path # "collection.query"}

\* C14: under any interleaving of requests, every call a request sends to
\* the generative backend carries the session id the request created when
\* it was accepted (so the id is the same for all of them), two requests
\* never have the same session id, and so the calls recorded under one
\* session id are the calls of one request.
C14_SessionIdPerRequest ==
    /\ \A r \in Reqs :
          Accepted(r) =>
              /\ req[r].sessionId \in usedIds
              /\ \A i \in SessionCalls(r) : req[r].calls[i].sessionId = req[r].sessionId
    /\ \A r1, r2 \in Reqs :
          (Accepted(r1) /\ Accepted(r2) /\ r1 # r2) =>
              /\ req[r1].sessionId # req[r2].sessionId
              /\ \A i \in SessionCalls(r1), j \in SessionCalls(r2) :
                    req[r1].calls[i].sessionId # req[r2].calls[j].sessionId

C14_Witness ==
    \E r1, r2 \in Reqs :
        /\ req[r1].pc = "await_reasoning"
        /\ req[r2].pc = "await_final"
        /\ Len(req[r1].calls) = 3
        /\ req[r1].calls[3].sessionId # req[r2].calls[3].sessionId

\* A request has reached the handler.
Handled(r) ==
    req[r].pc \notin {"idle", "closed"}

\* C15: in the ChromaDB programs seedKnowledgeBase runs at most once per
\* process start and has completed before the server listens: no request
\* is handled, and so no collection.query is issued, before the seeding
\* has completed, and a process whose seeding failed is never listening.
C15_SeedBeforeTraffic ==
    variant # "main" =>
        /\ Len(seedLog) <= starts
        /\ seedPc = "done" <=> Len(seedLog) = starts
        /\ server = "listening" => seedPc = "done"
        /\ seedPc = "failed" => server = "seeding"
        /\ \A r \in Reqs :
              Handled(r) => (seedPc = "done" /\ server = "listening")
        /\ \A r \in Reqs :
              "collection.query" \in Paths(r) => seedPc = "done"

C15_Witness ==
    \E r \in Reqs :
        /\ variant = "fast"
        /\ seedLog = <<SeedRun({}, SeedSet)>>
        /\ req[r].pc = "await_query"

\* C16: no call of a request is made twice - the paths of its calls are
\* pairwise different, so each of the classification, context-resolution,
\* reasoning and synthesis calls is attempted at most once - and the first
\* call that throws ends the request: it is the last call issued, one
\* value was caught and the reply is a 500.
C16_NoRetry ==
    \A r \in Reqs :
        /\ \A i, j \in 1..Len(req[r].calls) :
              i # j => req[r].calls[i].path # req[r].calls[j].path
        /\ Len(req[r].caught) <= 1
        /\ Len(req[r].caught) = 1 <=> req[r].pc = "failed"
        /\ req[r].pc = "failed" =>
              /\ req[r].sent[1].status = 500
              /\ Len(req[r].sent) = 1

C16_Witness ==
    \E r \in Reqs :
        /\ req[r].pc = "failed"
        /\ PathSeq(r) = <<"/classify">>
        /\ req[r].caught = <<Thrown(TRUE, MsgConnection)>>

\* The request resolves its context through the time tool.
TimePath(r) ==
    Len(req[r].tools) = 1 /\ req[r].tools[1] = "getCurrentTime"

\* C17: a request on the time path issues no call to a collaborator for
\* the time branch - the only calls it makes are /classify, /reasoning and
\* /final-response - and it never fails in that branch.
C17_TimeToolIsLocal ==
    \A r \in Reqs :
        TimePath(r) =>
            /\ Paths(r) \subseteq {"/classify", "/reasoning", "/final-response"}
            /\ req[r].pc # "await_log"
            /\ req[r].pc = "failed" => LastPath(r) \in {"/reasoning", "/final-response"}
            /\ req[r].time \in Instants

\* C18: in retrieveFromChromaDB the relevance score recorded for a match
\* is 1 - distance for every distance the index reports, an exact match
\* (distance 0) included, and the first match is the document returned
\* whatever its relevance.
C18_RelevanceIsOneMinusDistance ==
    \A r \in Reqs :
        (variant = "fast" /\ req[r].results.shape = "rows") =>
            /\ Len(req[r].topMatches) = Len(req[r].results.row)
            /\ \A i \in 1..Len(req[r].topMatches) :
                  i <= Len(req[r].results.distances) =>
                      req[r].topMatches[i].relevance_score =
                          One - req[r].results.distances[i]
            /\ (Len(req[r].results.row) > 0 /\ req[r].results.row[1] # Undefined) =>
                  req[r].document = req[r].results.row[1]

(***************************************************************************)
(* Process restarts                                                        *)
(***************************************************************************)

\* The number of times the process is started.
MaxStarts ==
    2

\* What the collection may hold when the process is first started: nothing,
\* the seed documents, or a document added by other means.
CollectionsAtStart ==
    InitialCollections \cup {{SeedIds[1]}}

InitSeed ==
    /\ InitCommon
    /\ collection \in IF variant = "main" THEN {{}} ELSE CollectionsAtStart
    /\ req = [r \in Reqs |-> IF r = 1 THEN IdleReq ELSE ClosedReq]

\* The process ends once no seeding call is in flight and is started
\* again: the module is loaded anew, the requests of the old process are
\* gone, the ChromaDB collection stays as it is.
Restart ==
    /\ starts < MaxStarts
    /\ seedPc \in {"none", "done", "failed"}
    /\ starts' = starts + 1
    /\ server' = ServerAtLoad(variant)
    /\ seedPc' = SeedPcAtLoad(variant)
    /\ req' = [r \in Reqs |-> IF r = 1 THEN IdleReq ELSE ClosedReq]
    /\ UNCHANGED <<variant, knowledgeBase, collection, usedIds, seedLog>>

NextSeed ==
    \/ NextPair
    \/ Restart

SpecSeed ==
    InitSeed /\ [][NextSeed]_vars

\* C19: seedKnowledgeBase issues the add only when the count is 0; a run
\* that finds the collection empty leaves exactly the six seed documents, a
\* run that finds anything leaves the collection as it found it, and a
\* second run in sequence leaves what the first one left.
C19_SeedingIdempotent ==
    /\ seedPc = "add" => collection = {}
    /\ \A i \in 1..Len(seedLog) :
          /\ seedLog[i].before = {} =>
                seedLog[i].after = SeedSet /\ Cardinality(seedLog[i].after) = NumSeeds
          /\ seedLog[i].before # {} => seedLog[i].after = seedLog[i].before
          /\ i > 1 => /\ seedLog[i].before = seedLog[i - 1].after
                      /\ seedLog[i].after = seedLog[i - 1].after
    /\ seedPc = "done" => collection = seedLog[Len(seedLog)].after

C19_Witness ==
    /\ Len(seedLog) = 2
    /\ seedLog[1] = SeedRun({}, SeedSet)
    /\ seedLog[2] = SeedRun(SeedSet, SeedSet)
    /\ starts = 2
    /\ collection = SeedSet

PathTimeDetected ==
    <<"t","i","m","e","_","d","e","t","e","c","t","i","o","n",",","t","i","m","e","_","r",
      "e","t","r","i","e","v","a","l",",","r","e","a","s","o","n","i","n","g",",","r","e",
      "s","p","o","n","s","e","_","g","e","n","e","r","a","t","i","o","n">>

PathKnowledge ==
    <<"q","u","e","r","y","_","c","l","a","s","s","i","f","i","c","a","t","i","o","n",",",
      "k","n","o","w","l","e","d","g","e","_","r","e","t","r","i","e","v","a","l",",","r",
      "e","a","s","o","n","i","n","g",",","r","e","s","p","o","n","s","e","_","g","e","n",
      "e","r","a","t","i","o","n">>

PathTimeFallback ==
    <<"q","u","e","r","y","_","c","l","a","s","s","i","f","i","c","a","t","i","o","n",",",
      "t","i","m","e","_","f","a","l","l","b","a","c","k",",","r","e","a","s","o","n","i",
      "n","g",",","r","e","s","p","o","n","s","e","_","g","e","n","e","r","a","t","i","o",
      "n">>

\* The /final-response call of request r has been issued.
FinalIssued(r) ==
    CountPath(r, "/final-response") > 0

\* C20: in the fast-path program stepsTaken only grows by appending - its
\* value before a step is a prefix of its value after - and the
\* ExecutionPath sent with /final-response is the step list of the time
\* fast path, of the knowledge path or of the time fallback.
C20_StepsAppendOnly ==
    [][\A r \in Reqs :
          variant = "fast" =>
              /\ IsPrefix(req[r].stepsTaken, req'[r].stepsTaken)
              /\ Len(req'[r].stepsTaken) <= Len(req[r].stepsTaken) + 2
              /\ FinalIssued(r)' =>
                    /\ req'[r].executionPath \in {PathTimeDetected, PathKnowledge, PathTimeFallback}
                    /\ req'[r].executionPath = PathTimeDetected <=> req'[r].isTimeQuestion
                    /\ req'[r].executionPath = PathKnowledge <=>
                           req'[r].tools = <<"ChromaDBRetrieval">>
                    /\ Len(req'[r].stepsTaken) = 4]_vars

C20_Witness ==
    \E r \in Reqs :
        /\ variant = "fast"
        /\ req[r].pc = "done"
        /\ req[r].executionPath = PathTimeFallback
        /\ req[r].stepsTaken = <<"query_classification", "time_fallback", "reasoning",
                                 "response_generation">>

\* Some request slot changes in the step.
RequestStep ==
    req' # req

\* C21: a step of the /analyze handler or of processMultiStepQuery leaves
\* the state shared between requests as it is - the knowledgeBase map, the
\* collection and its documents, the server and the seeding position - and
\* the collection changes only by the add of seedKnowledgeBase; the
\* knowledgeBase map never changes.
C21_RequestsOnlyRead ==
    [][/\ RequestStep =>
             /\ knowledgeBase' = knowledgeBase
             /\ collection' = collection
             /\ server' = server
             /\ seedPc' = seedPc
             /\ seedLog' = seedLog
       /\ collection' # collection =>
             /\ seedPc = "add"
             /\ seedPc' = "done"
             /\ collection' = SeedSet
       /\ knowledgeBase' = knowledgeBase]_vars

C21_Witness ==
    \E r1, r2 \in Reqs :
        /\ r1 # r2
        /\ req[r1].pc = "done"
        /\ req[r2].pc = "await_log"
        /\ CountPath(r1, "collection.query") = 1
        /\ CountPath(r2, "collection.query") = 1
        /\ collection = SeedSet
        /\ seedLog = <<SeedRun({}, SeedSet)>>

(***************************************************************************)
(* Progress of requests                                                    *)
(***************************************************************************)

\* An event loop that resumes a request only when no request of a lower
\* slot is waiting for a call.
CallEndsInTurn(r) ==
    /\ \A q \in Reqs : q < r => req[q].pc \notin Awaiting
    /\ \/ \E completion \in PairClassifyReplies, now \in PairInstants :
              ClassifyReturn(r, completion, now)
       \/ \E results \in PairQueryResults : QueryReturn(r, results)
       \/ LogReturn(r)
       \/ \E completion \in PairReasoningReplies : ReasoningReturn(r, completion)
       \/ \E completion \in PairFinalReplies : FinalReturn(r, completion)
       \/ \E err \in PairThrownValues : CallThrows(r, err)

\* The call request r awaits settles and the event loop resumes the
\* request: the call returns, or it throws.
CallEnds(r) ==
    \/ \E completion \in PairClassifyReplies, now \in PairInstants :
           ClassifyReturn(r, completion, now)
    \/ \E results \in PairQueryResults : QueryReturn(r, results)
    \/ LogReturn(r)
    \/ \E completion \in PairReasoningReplies : ReasoningReturn(r, completion)
    \/ \E completion \in PairFinalReplies : FinalReturn(r, completion)
    \/ \E err \in PairThrownValues : CallThrows(r, err)

\* The first and the last request slot carry traffic.
InitLive ==
    /\ InitCommon
    /\ collection \in IF variant = "main" THEN {{}} ELSE InitialCollections
    /\ req = [r \in Reqs |-> IF r \in {1, NumReqs} THEN IdleReq ELSE ClosedReq]

NextLive ==
    \/ SeedGetOrCreate
    \/ SeedCount
    \/ SeedAdd
    \/ Listen
    \/ SeedFails
    \/ \E r \in Reqs, body \in PairTexts, uuid \in UUIDs, now \in PairInstants :
           AnalyzeHandler(r, body, uuid, now)
    \/ \E r \in Reqs : CallEnds(r)

\* The calls of every request but the one in the first slot settle; the
\* backend may leave the calls of the first slot unanswered for ever.
SpecLive ==
    InitLive /\ [][NextLive]_vars /\ \A r \in Reqs \ {1} : WF_vars(CallEnds(r))

\* The request has got its reply: the final response or the 500 reply.
Terminated(r) ==
    req[r].pc \in {"done", "failed"} /\ Len(req[r].sent) = 1

\* C22: a request whose calls each settle in the end, once accepted, ends
\* with a reply, whether or not the calls of another request settle; and a
\* request waiting for a call moves only when that call settles (nothing
\* times it out).
C22_AcceptedTerminates ==
    /\ \A r \in Reqs \ {1} : Accepted(r) ~> Terminated(r)
    /\ [][\A r \in Reqs :
             (req[r].pc \in Awaiting /\ req'[r] # req[r]) =>
                 /\ Len(req'[r].calls) > Len(req[r].calls) \/ Terminated(r)'
                 /\ req'[r].pc # req[r].pc]_vars

C22_Witness ==
    \E r \in Reqs :
        /\ r # 1
        /\ req[1].pc = "await_classify"
        /\ req[r].pc = "done"
        /\ Terminated(r)
        /\ Len(req[r].calls) = 4

(***************************************************************************)
(* The static knowledge base of src/main.ts                                *)
(***************************************************************************)

TxtArtificial ==
    <<"A","r","t","i","f","i","c","i","a","l"," ","I","n","t","e","l","l","i","g","e","n",
      "c","e","?">>

TxtHeliconeUsesAi ==
    <<"H","e","l","i","c","o","n","e"," ","u","s","e","s"," ","A","I">>

TxtRetrieval ==
    <<"d","o","c","u","m","e","n","t"," ","R","e","t","r","i","e","v","a","l">>

TxtStorage ==
    <<"s","t","o","r","a","g","e">>

TxtExplainHelicone ==
    <<"e","x","p","l","a","i","n"," ","H","e","l","i","c","o","n","e">>

\* Texts for the keyword lookup: one keyword, several keywords, keywords in
\* upper case, a keyword inside a longer word, no keyword.
LookupTexts ==
    {TxtWhatIsAi, TxtArtificial, TxtHeliconeRag, TxtHeliconeUsesAi, TxtRetrieval,
     TxtStorage, TxtExplainHelicone, TxtHello}

\* src/main.ts is the program that runs.
InitLookup ==
    /\ InitCommon
    /\ variant = "main"
    /\ collection = {}
    /\ req = [r \in Reqs |-> IF r = 1 THEN IdleReq ELSE ClosedReq]

NextLookup ==
    \/ \E r \in Reqs, body \in LookupTexts, uuid \in UUIDs, now \in PairInstants :
           AnalyzeHandler(r, body, uuid, now)
    \/ \E r \in Reqs, completion \in PairClassifyReplies, now \in PairInstants :
           ClassifyReturn(r, completion, now)
    \/ \E r \in Reqs : LogReturn(r)
    \/ \E r \in Reqs, completion \in PairReasoningReplies : ReasoningReturn(r, completion)
    \/ \E r \in Reqs, completion \in PairFinalReplies : FinalReturn(r, completion)
    \/ \E r \in Reqs, err \in PairThrownValues : CallThrows(r, err)

SpecLookup ==
    InitLookup /\ [][NextLookup]_vars

\* sub occurs in s at some position.
Contains(s, sub) ==
    \E i \in 1..(Len(s) - Len(sub) + 1) : \A k \in 1..Len(sub) : s[i + k - 1] = sub[k]

\* C23: in src/main.ts the context of a request classified Question is the
\* AI entry if the lowercased text contains "ai" or "artificial
\* intelligence", otherwise the Helicone entry if it contains "helicone",
\* otherwise the RAG entry if it contains "rag" or "retrieval", otherwise
\* "No relevant knowledge found."; the four outcomes are distinct.
C23_LookupPrecedence ==
    \A r \in Reqs :
        (variant = "main" /\ Accepted(r) /\ ClassifiedQuestion(r)) =>
            LET inputText == ToLowerCase(req[r].text)
                ai        == Contains(inputText, KwAi)
                                \/ Contains(inputText, KwArtificialIntelligence)
                helicone  == Contains(inputText, KwHelicone)
                rag       == Contains(inputText, KwRag) \/ Contains(inputText, KwRetrieval)
            IN  /\ ai => req[r].context = KbAi
                /\ (~ai /\ helicone) => req[r].context = KbHelicone
                /\ (~ai /\ ~helicone /\ rag) => req[r].context = KbRag
                /\ (~ai /\ ~helicone /\ ~rag) => req[r].context = NoRelevantKnowledge
                /\ Cardinality({KbAi, KbHelicone, KbRag, NoRelevantKnowledge}) = 4
                /\ req[r].tools = <<"knowledgeBaseLookup">>

C23_Witness ==
    \E r \in Reqs :
        /\ variant = "main"
        /\ ClassifiedQuestion(r)
        /\ req[r].pc = "done"
        /\ req[r].text = TxtHeliconeUsesAi
        /\ req[r].context = KbAi

\* The context of request r is an entry of the knowledge base that the
\* lookup retrieved.
RetrievedEntry(r) ==
    /\ req[r].tools = <<"knowledgeBaseLookup">>
    /\ req[r].context \in {KbAi, KbHelicone, KbRag}

\* C24: in src/main.ts the HasContext tag of the /reasoning call and the
\* HasKnowledge tag of the /final-response call are "true" exactly when
\* the context is an entry retrieved from the knowledge base - "false" when
\* the lookup found nothing and when the time tool produced the context -
\* and the two tags of a request agree.
C24_TagsMeanKnowledge ==
    \A r \in Reqs :
        variant = "main" =>
            /\ CountPath(r, "/reasoning") > 0 =>
                  req[r].hasContext = IF RetrievedEntry(r) THEN "true" ELSE "false"
            /\ CountPath(r, "/final-response") > 0 =>
                  /\ req[r].hasKnowledge = IF RetrievedEntry(r) THEN "true" ELSE "false"
                  /\ req[r].hasKnowledge = req[r].hasContext
====
